---- MODULE Spec2Model ----
(***************************************************************************)
(* Incremental synchronisation engine of ctg-rag-genie                     *)
(* (src/fastgpt_sync.py, class FastGPTSyncer).                             *)
(*                                                                         *)
(* File names are sequences of one-character strings, so that the regular  *)
(* expression search of _get_file_identity, the "-zh" substring test and   *)
(* the startswith(today) test are computed on characters.  Directory       *)
(* names are plain strings.  The state file is a sequence of <<key,        *)
(* record>> pairs: a Python dict (and the JSON object it is loaded from)   *)
(* keeps its insertion order, and migration depends on that order.         *)
(***************************************************************************)
EXTENDS Integers, Sequences, FiniteSets, TLC

VARIABLES
    disk,              \* the state file SYNC_STATE_DB: [kind, files]
    content,           \* local tree: file index -> bytes (0 = no such file)
    clock,             \* wall clock, as a day of January 2025
    pc,                \* position of the syncer process
    daemon,            \* args.daemon (otherwise args.once)
    mode,              \* UPLOAD_FILTER_MODE
    state,             \* self.state: [kind, files]
    ridx,              \* position of the loop "for root in roots" (0 before it)
    idx,               \* position of the loop "for file_path in all_files"
    attempt,           \* loop variable of upload_file
    slept,             \* time.sleep(RETRY_DELAY) calls made by the current upload_file call
    collection_id,     \* local of sync_once
    collection_cache,  \* local of sync_once: set of <<name, id>>
    added, modified, skipped,   \* locals of sync_once
    upCalls,           \* history: file index -> upload_file calls in this run
    resolvedFor,       \* history: files for which a collection was resolved in this run
    remoteFor,         \* history: files for which get_or_create_collection was called in this run
    lookups,           \* history: list requests sent by the last get_or_create_collection call
    dateChecks,        \* history: <<file, passed>> for the files the date rule of
                       \*          lines 307-311 was applied to in this run
    sent,              \* history: the requests get_or_create_collection sent in the step
                       \*          just taken, with their outcomes
    okLog,             \* history: <<identity, record, file>> of the successful uploads of this run
    base,              \* history: self.state["files"] as migrated at the start of this run
    edits,             \* history: number of edits made to the tree
    edited,            \* history: files whose bytes changed since the last completed run
    stable,            \* history: the last completed run made every needed upload, and
                       \*          tree, date and mode are unchanged since it began
    dirty,             \* history: this run met a failure, or tree/date changed during it
    raised,            \* history: where the exception that ended the last run was raised
    peer,              \* a second process of the same program on the same state file
                       \* and tree: [pc, state, idx]
    ppc,               \* main.py: position of auto_pipeline
    step,              \* auto_pipeline: run_step calls made by the loop over steps
    success_count,     \* auto_pipeline: local
    started,           \* history: the scripts whose child process was started by this call
    exits,             \* history: how the run_step calls of this call ended
    report,            \* the counts printed at the end of the last call
    recs,              \* output/<folder>/<nct_id>.json: record -> state of the file
    tpc,               \* ctgov_full_sync_rag.py: position of process_pending_sync
    tidx,              \* process_pending_sync: position of the loop over the JSON files
    worked,            \* history: records this invocation generated documents for
    errs,              \* history: records whose processing raised in this invocation
    pin, pout, pout2   \* input and outputs of the pure-function specification

vars == <<disk, content, clock, pc, daemon, mode, state, idx, ridx, attempt, slept,
          collection_id, collection_cache, added, modified, skipped, 
          upCalls, resolvedFor, remoteFor, lookups, sent, dateChecks, okLog, base, edits,
          edited, stable, dirty, raised, peer, ppc, step, success_count, started,
          exits, report, recs, tpc, tidx, worked, errs, pin, pout, pout2>>

progVars == <<disk, content, clock, pc, daemon, mode, state, idx, ridx, attempt, slept,
              collection_id, collection_cache, added, modified, skipped, 
              upCalls, resolvedFor, remoteFor, lookups, sent, dateChecks, okLog, base, edits,
              edited, stable, dirty, raised, peer>>

pureVars == <<pin, pout, pout2>>

pipeVars == <<ppc, step, success_count, started, exits, report, recs, tpc, tidx,
              worked, errs>>

-----------------------------------------------------------------------------
(* Bounds of the model *)

\* last day the wall clock reaches (days 1..MaxDay of January 2025)
MaxDay == 2
\* number of edits the upstream producers make to the tree
MaxEdits == 1
\* number of study records the downloader can write (records 1..MaxRecs)
MaxRecs == 2
\* distinct byte contents a file can have (1..MaxContent)
MaxContent == 2

(* Program constants *)

\* RETRY_TIMES = int(os.getenv("FASTGPT_PUSH_RETRY_TIMES", 3))
RETRY_TIMES == 3

\* FASTGPT_CN_SUBDIR = os.getenv("FASTGPT_CN_SUBDIR", "cn")
FASTGPT_CN_SUBDIR == "cn"

\* Python None; no record, identity or collection id of the model is the empty tuple
None == <<>>

-----------------------------------------------------------------------------
(* Characters and file names *)

Digits == {"0", "1", "2", "3", "4", "5", "6", "7", "8", "9"}

DigitChar(n) == <<"0", "1", "2", "3", "4", "5", "6", "7", "8", "9">>[n + 1]

NCT1 == <<"N", "C", "T", "0", "0", "0", "0", "0", "0", "0", "1">>
NCT2 == <<"N", "C", "T", "0", "0", "0", "0", "0", "0", "0", "2">>
Dash == <<"-">>
Zh == <<"-", "z", "h">>
Md == <<".", "m", "d">>
DS_Store == <<".", "D", "S", "_", "S", "t", "o", "r", "e">>
Notes == <<"n", "o", "t", "e", "s">>

\* datetime.now().strftime("%Y-%m-%d") on day d of January 2025
today_str(d) == <<"2", "0", "2", "5", "-", "0", "1", "-">> \o <<DigitChar(d \div 10), DigitChar(d % 10)>>

\* s[i..] begins with t
MatchAt(s, t, i) == /\ i >= 1
                    /\ i + Len(t) - 1 <= Len(s)
                    /\ \A k \in 1..Len(t) : s[i + k - 1] = t[k]

\* Python: t in s
Contains(s, t) == \E i \in 1..(Len(s) + 1) : MatchAt(s, t, i)

\* Python: s.startswith(t)
StartsWith(s, t) == MatchAt(s, t, 1)

\* Python: s.endswith(t); Path(s).suffix == ".md" for a name longer than ".md"
EndsWith(s, t) == Len(s) > Len(t) /\ MatchAt(s, t, Len(s) - Len(t) + 1)

-----------------------------------------------------------------------------
(* Identity Resolver *)

\* the regular expression NCT\d{8} matches at position i of s
NctAt(s, i) == /\ i + 10 <= Len(s)
               /\ s[i] = "N" /\ s[i + 1] = "C" /\ s[i + 2] = "T"
               /\ \A k \in 3..10 : s[i + k] \in Digits

\* mutation: re.match in place of re.search, the token is looked for at the start only
re_search_Anchored(s, i) == IF NctAt(s, 1) THEN SubSeq(s, 1, 11) ELSE None

RECURSIVE re_search(_, _)
\* re.search(r'NCT\d{8}', s): scan from the left, the first match wins
re_search(s, i) == IF i + 10 > Len(s) THEN None
                   ELSE IF NctAt(s, i) THEN SubSeq(s, i, i + 10)
                   ELSE re_search(s, i + 1)

_get_file_identity(filename) == LET nct_match == re_search(filename, 1)
                                IN  IF nct_match # None THEN nct_match ELSE filename

-----------------------------------------------------------------------------
(* The local tree: FASTGPT_LOCAL_DIR lists the roots output, staging and     *)
(* archive; staging does not exist.  Tree is the enumeration order of        *)
(* root.rglob("*"), root after root.                                         *)

\* roots = [Path(d) for d in self._parse_dirs(raw_val)], as path parts
roots == << <<"output">>, <<"staging">>, <<"archive">> >>

\* root.exists()
Existing == {<<"output">>, <<"archive">>}

Tree == <<
    [root |-> <<"output">>, dirs |-> <<"lung", "cn">>,
     name |-> today_str(1) \o Dash \o NCT1 \o Zh \o Md],
    [root |-> <<"output">>, dirs |-> <<"history">>,
     name |-> today_str(1) \o Dash \o NCT1 \o Zh \o Md],
    [root |-> <<"output">>, dirs |-> <<"lung">>,
     name |-> NCT2 \o Md],
    [root |-> <<"archive">>, dirs |-> <<"lung">>,
     name |-> today_str(2) \o Dash \o Notes \o Zh \o Md] >>

Files == 1..Len(Tree)

\* number of files of Tree under the first r roots
LastOf == [r \in 0..Len(roots) |->
              Cardinality({f \in Files : \E q \in 1..r : Tree[f].root = roots[q]})]

\* all_files of the root at position r: the positions First(r)..Last(r) of Tree
First(r) == LastOf[r - 1] + 1
Last(r) == LastOf[r]

\* _get_file_identity of each file of the tree
IdentityOf == [f \in Files |-> _get_file_identity(Tree[f].name)]

Identities == {IdentityOf[f] : f \in Files}

\* hashlib.md5 of the bytes: a fixed injective digest of the content
_get_file_hash(bytes) == <<"md5", bytes>>

\* the collection id the remote store assigns to a folder name
ColId(name) == <<"col", name>>

-----------------------------------------------------------------------------
(* State Store *)

EmptyStore == [kind |-> "ok", files |-> <<>>]

Keys(files) == {files[i][1] : i \in 1..Len(files)}

\* dict.get(key): the value, or None
Get(files, key) == IF \E i \in 1..Len(files) : files[i][1] = key
                   THEN files[CHOOSE i \in 1..Len(files) : files[i][1] = key][2]
                   ELSE None

\* mutation: dict.setdefault in place of the assignment, an existing record stays
Put_KeepsOld(files, key, val) == IF key \in Keys(files) THEN files
                                 ELSE Append(files, <<key, val>>)

\* dict[key] = val: replaces in place, or appends
Put(files, key, val) == IF key \in Keys(files)
                        THEN [i \in 1..Len(files) |->
                                 IF files[i][1] = key THEN <<key, val>> ELSE files[i]]
                        ELSE Append(files, <<key, val>>)

\* if "filename" not in val: val["filename"] = key
WithFilename(key, val) == IF "filename" \in DOMAIN val THEN val
                          ELSE [f \in DOMAIN val \cup {"filename"} |->
                                   IF f = "filename" THEN key ELSE val[f]]

RECURSIVE MigrateFrom_LastWins(_, _, _)
\* mutation: the test "new_identity not in migrated_files" is dropped, a later key
\* of the same identity overwrites the record of an earlier one
MigrateFrom_LastWins(original_files, i, migrated_files) ==
    IF i > Len(original_files) THEN migrated_files
    ELSE LET key == original_files[i][1]
             val == original_files[i][2]
         IN  MigrateFrom_LastWins(original_files, i + 1,
                 Put(migrated_files, _get_file_identity(key), WithFilename(key, val)))

RECURSIVE MigrateFrom_KeepsKeys(_, _, _)
\* mutation: the record is stored under the old key, not under new_identity
MigrateFrom_KeepsKeys(original_files, i, migrated_files) ==
    IF i > Len(original_files) THEN migrated_files
    ELSE LET key == original_files[i][1]
             val == original_files[i][2]
             new_identity == _get_file_identity(key)
         IN  MigrateFrom_KeepsKeys(original_files, i + 1,
                 IF new_identity \notin Keys(migrated_files)
                 THEN Append(migrated_files, <<key, WithFilename(key, val)>>)
                 ELSE migrated_files)

RECURSIVE MigrateFrom(_, _, _)
\* the loop "for key, val in original_files.items()" from item i on
MigrateFrom(original_files, i, migrated_files) ==
    IF i > Len(original_files) THEN migrated_files
    ELSE LET key == original_files[i][1]
             val == original_files[i][2]
             new_identity == _get_file_identity(key)
         IN  MigrateFrom(original_files, i + 1,
                 IF new_identity \notin Keys(migrated_files)
                 THEN Append(migrated_files, <<new_identity, WithFilename(key, val)>>)
                 ELSE migrated_files)

Migrate(original_files) == MigrateFrom(original_files, 1, <<>>)

\* mutation: no try/except around json.load, what cannot be parsed is not replaced
_load_state_NoExcept(d) == IF d.kind = "missing" THEN EmptyStore ELSE d

\* _load_state: the mapping, or {"files": {}} when the file is missing or json.load raises
_load_state(d) == IF d.kind = "missing" THEN EmptyStore
                  ELSE IF d.kind = "partial" THEN EmptyStore
                  ELSE d

\* state files found at the first start: none, an unparseable one, valid JSON that
\* is not an object, an empty mapping, and one keyed by raw file names
LegacyStore == <<
    <<NCT1 \o Md,
      [hash |-> _get_file_hash(1), uploadTime |-> 1,
       collectionId |-> ColId("lung"), sourcePath |-> <<"lung", NCT1 \o Md>>]>>,
    <<today_str(1) \o Dash \o NCT1 \o Zh \o Md,
      [filename |-> today_str(1) \o Dash \o NCT1 \o Zh \o Md,
       hash |-> _get_file_hash(2), uploadTime |-> 1,
       collectionId |-> ColId("lung"),
       sourcePath |-> <<"lung", "cn", today_str(1) \o Dash \o NCT1 \o Zh \o Md>>]>> >>

InitialDisks == {[kind |-> "missing", files |-> <<>>],
                 [kind |-> "partial", files |-> <<>>],
                 [kind |-> "badshape", files |-> <<>>],
                 EmptyStore,
                 [kind |-> "ok", files |-> LegacyStore]}

-----------------------------------------------------------------------------
(* Scan & filter *)

\* Path.name of the k-th ancestor directory ("" above the top)
DirName(parts, k) == IF Len(parts) >= k THEN parts[Len(parts) - k + 1] ELSE ""

\* lines 326-336.  file_path.parts also holds the file name, which ends in ".md"
\* and so never equals "history".
CollectionName(file) ==
    LET parts == file.root \o file.dirs
        n1 == DirName(parts, 1)
        n2 == IF n1 \in {FASTGPT_CN_SUBDIR, "zh", "en"} THEN DirName(parts, 2) ELSE n1
        n3 == IF \E i \in 1..Len(parts) : parts[i] = "history" THEN "history" ELSE n2
    IN  IF n3 = "" \/ n3 \in {".", "/", DirName(file.root, 1)}
        THEN "Default_Collection" ELSE n3

\* f.suffix == ".md"
MdFiles == {f \in Files : EndsWith(Tree[f].name, Md)}

\* f.is_file() and f.suffix == ".md"
Enumerated(f) == content[f] # 0 /\ f \in MdFiles

\* mutation: the "-zh" test is dropped from line 303
NoMarker_OnlyDsStore(filename) == Contains(filename, DS_Store)

\* line 303: the file is dropped without being counted
NoMarker(filename) == ~Contains(filename, Zh) \/ Contains(filename, DS_Store)

Unmarked == {f \in Files : NoMarker(Tree[f].name)}

\* the grouping name of each file of the tree
CollectionOf == [f \in Files |-> CollectionName(Tree[f])]

\* mutation: the date filter is applied whatever UPLOAD_FILTER_MODE is
DateSkipped_AnyMode(filename) == ~StartsWith(filename, today_str(clock))

\* lines 307-311
DateSkipped(filename) == mode = "today" /\ ~StartsWith(filename, today_str(clock))

\* line 307: in mode "today" the date rule is applied to the file, which passes
\* or is skipped
DateChecked(f) == IF mode = "today"
                  THEN dateChecks \cup {<<f, ~DateSkipped(Tree[f].name)>>}
                  ELSE dateChecks

\* mutation: the cache is never consulted, every file asks the remote store
CacheGet_Never(cache, name) == None

\* collection_cache.get(collection_name)
CacheGet(cache, name) == IF \E p \in cache : p[1] = name
                         THEN (CHOOSE p \in cache : p[1] = name)[2]
                         ELSE None

-----------------------------------------------------------------------------
(* Remote Store Client *)

\* get_or_create_collection(name) when the list request ends lk and the create
\* request ends cr: the id returned (None on failure).  An exception in either
\* request leaves through the except clause; every other list outcome than an
\* exact name match falls through to the create request.
get_or_create_collection(name, lk, cr) ==
    IF lk = "exception" THEN None
    ELSE IF lk = "found" THEN ColId(name)
    ELSE IF cr = "ok" THEN ColId(name)
    ELSE None

\* the requests that call sends: the list request (line 119), and the create request
\* (line 137) when the list request raised nothing and returned from line 127
CollectionRequests(name, lk, cr) ==
    IF lk \in {"exception", "found"}
    THEN <<[req |-> "list", name |-> name, res |-> lk]>>
    ELSE <<[req |-> "list", name |-> name, res |-> lk],
           [req |-> "create", name |-> name, res |-> cr]>>

\* outcomes of the list request: a collection of exactly that name is listed, none
\* is, a non-success answer, a transport exception.  The remote dataset is shared,
\* so any of them can happen at any call.
LookupOutcomes == {"found", "notfound", "error", "exception"}

CreateOutcomes == {"ok", "fail", "exception"}

-----------------------------------------------------------------------------
(* Initial state: no process runs, the tree holds every file with the same bytes *)

\* no second process: nothing is loaded
PeerOff == [pc |-> "off", state |-> EmptyStore, idx |-> 1]

\* the study records: output/<date>-<condition>/<nct_id>.json
Recs == 1..MaxRecs

\* main.py is not running and output/ holds no record
InitUpstream ==
    /\ ppc = "off"
    /\ step = 0
    /\ success_count = 0
    /\ started = <<>>
    /\ exits = <<>>
    /\ report = None
    /\ recs = [r \in Recs |-> "absent"]
    /\ tpc = "off"
    /\ tidx = 1
    /\ worked = {}
    /\ errs = {}

Init ==
    /\ disk \in InitialDisks
    /\ content = [f \in Files |-> 1]
    /\ clock = 1
    /\ pc = "off"
    /\ daemon = FALSE
    /\ mode = "today"
    /\ state = EmptyStore
    /\ ridx = 0
    /\ idx = 1
    /\ attempt = 0
    /\ slept = 0
    /\ collection_id = None
    /\ collection_cache = {}
    /\ added = 0 /\ modified = 0 /\ skipped = 0
    /\ upCalls = [f \in Files |-> 0]
    /\ resolvedFor = {}
    /\ remoteFor = {}
    /\ lookups = 0
    /\ sent = <<>>
    /\ dateChecks = {}
    /\ okLog = <<>>
    /\ base = <<>>
    /\ edits = 0
    /\ edited = {}
    /\ stable = FALSE
    /\ dirty = FALSE
    /\ raised = "none"
    /\ peer = PeerOff
    /\ InitUpstream
    /\ pin = None /\ pout = None /\ pout2 = None

-----------------------------------------------------------------------------
(* main(): a process starts; FastGPTSyncer() loads the state file once *)

Start(m, d) ==
    /\ pc = "off"
    /\ state' = _load_state(disk)
    /\ mode' = m
    /\ daemon' = d
    /\ pc' = "init"
    /\ stable' = (stable /\ m = mode)
    /\ raised' = "none"
    /\ UNCHANGED <<disk, content, clock, idx, ridx, attempt, slept, collection_id,
                   collection_cache, added, modified, skipped, upCalls, resolvedFor,
                   remoteFor, lookups, okLog, base, edits, edited, dirty, sent, dateChecks, peer, pipeVars, pureVars>>

\* main(), lines 384-390: the daemon registers sync_once with the cron trigger and
\* scheduler.start() blocks, waiting for the fire time
SchedulerStart ==
    /\ pc = "init"
    /\ daemon
    /\ pc' = "idle"
    /\ UNCHANGED <<disk, content, clock, daemon, mode, state, idx, ridx, attempt, slept,
                   collection_id, collection_cache, added, modified, skipped,
                   upCalls, resolvedFor, remoteFor, lookups, okLog, base, edits, edited,
                   stable, dirty, raised, sent, dateChecks, peer, pipeVars, pureVars>>

\* CronTrigger(hour, minute): the daily fire time comes and the scheduler submits
\* the job; the fire times recur for as long as the process lives
Fire ==
    /\ pc = "idle"
    /\ pc' = "due"
    /\ UNCHANGED <<disk, content, clock, daemon, mode, state, idx, ridx, attempt, slept,
                   collection_id, collection_cache, added, modified, skipped,
                   upCalls, resolvedFor, remoteFor, lookups, okLog, base, edits, edited,
                   stable, dirty, raised, sent, dateChecks, peer, pipeVars, pureVars>>

\* sync_once is called: by main() in a one-shot process, by the scheduler in a daemon
Called == (pc = "init" /\ ~daemon) \/ pc = "due"

\* mutation: _save_state is called only when the migration changed the mapping
SyncStart_SavesOnChange ==
    /\ Called
    /\ state.kind = "ok"
    /\ state' = [state EXCEPT !.files = Migrate(state.files)]
    /\ base' = Migrate(state.files)
    /\ pc' = IF Migrate(state.files) = state.files THEN "roots" ELSE "msave"
    /\ ridx' = 0
    /\ idx' = 1
    /\ attempt' = 0
    /\ slept' = 0
    /\ collection_id' = None
    /\ collection_cache' = {}
    /\ added' = 0 /\ modified' = 0 /\ skipped' = 0
    /\ upCalls' = [f \in Files |-> 0]
    /\ resolvedFor' = {}
    /\ remoteFor' = {}
    /\ lookups' = 0
    /\ okLog' = <<>>
    /\ dirty' = FALSE
    /\ raised' = "none"
    /\ sent' = <<>>
    /\ dateChecks' = {}
    /\ UNCHANGED <<disk, content, clock, daemon, mode, edits,
                   edited, stable, peer, pipeVars, pureVars>>

\* sync_once, lines 256-279 and 285-286: migration in memory, then _save_state is
\* entered.  self.state.get raises when the loaded JSON is not an object.
SyncStart ==
    /\ Called
    /\ state.kind = "ok"
    /\ state' = [state EXCEPT !.files = Migrate(state.files)]
    /\ base' = Migrate(state.files)
    /\ pc' = "msave"
    /\ ridx' = 0
    /\ idx' = 1
    /\ attempt' = 0
    /\ slept' = 0
    /\ collection_id' = None
    /\ collection_cache' = {}
    /\ added' = 0 /\ modified' = 0 /\ skipped' = 0
    /\ upCalls' = [f \in Files |-> 0]
    /\ resolvedFor' = {}
    /\ remoteFor' = {}
    /\ lookups' = 0
    /\ okLog' = <<>>
    /\ dirty' = FALSE
    /\ raised' = "none"
    /\ sent' = <<>>
    /\ dateChecks' = {}
    /\ UNCHANGED <<disk, content, clock, daemon, mode, edits,
                   edited, stable, peer, pipeVars, pureVars>>

\* sync_once has returned or the process is gone: its locals, and the history
\* kept of the run, are dropped
LocalsGone ==
    /\ ridx' = 0
    /\ idx' = 1
    /\ attempt' = 0
    /\ slept' = 0
    /\ collection_id' = None
    /\ collection_cache' = {}
    /\ added' = 0 /\ modified' = 0 /\ skipped' = 0
    /\ upCalls' = [f \in Files |-> 0]
    /\ resolvedFor' = {}
    /\ remoteFor' = {}
    /\ lookups' = 0
    /\ sent' = <<>>
    /\ dateChecks' = {}
    /\ okLog' = <<>>
    /\ base' = <<>>
    /\ dirty' = FALSE

\* the process is gone: self.state is lost with it
ProcessGone ==
    /\ pc' = "off"
    /\ state' = EmptyStore
    /\ daemon' = FALSE

\* mutation: an exception of the job ends the daemon as it ends a one-shot process
Raise_StopsScheduler(where) ==
    /\ ProcessGone
    /\ raised' = where
    /\ stable' = FALSE
    /\ LocalsGone
    /\ UNCHANGED <<disk, content, clock, mode, edits, edited, peer, pipeVars, pureVars>>

\* an exception leaves sync_once, which catches none: it ends a one-shot process
\* (main, line 383); in a daemon the scheduler's executor logs it and the job stays
\* scheduled, with the syncer and its self.state (lines 386-390)
Raise(where) ==
    /\ IF daemon THEN pc' = "idle" /\ UNCHANGED <<state, daemon>> ELSE ProcessGone
    /\ raised' = where
    /\ stable' = FALSE
    /\ LocalsGone
    /\ UNCHANGED <<disk, content, clock, mode, edits, edited, peer, pipeVars, pureVars>>

\* line 261: self.state.get raises AttributeError when the loaded JSON is not an object
SyncRaises ==
    /\ Called
    /\ state.kind # "ok"
    /\ Raise("state.get")

\* where _save_state can raise: path.parent.mkdir (line 61), open (line 62),
\* json.dump or the close of the file (line 63)
SaveErrors == {"mkdir", "open", "json.dump"}

\* _save_state raises OSError: before the file is opened it is left as it was,
\* after that it stays truncated; nothing in sync_once catches it
SaveRaises(where) ==
    /\ \/ pc \in {"msave", "fsave"} /\ where \in {"mkdir", "open"}
       \/ pc \in {"mwrite", "fwrite"} /\ where = "json.dump"
    /\ Raise(where)

\* _save_state, lines 60-62: open(path, "w") truncates the state file
SaveOpen ==
    /\ pc \in {"msave", "fsave"}
    /\ disk' = [kind |-> "partial", files |-> <<>>]
    /\ pc' = IF pc = "msave" THEN "mwrite" ELSE "fwrite"
    /\ UNCHANGED <<content, clock, daemon, mode, state, idx, ridx, attempt, slept,
                   collection_id, collection_cache, added, modified, skipped, 
                   upCalls, resolvedFor, remoteFor, lookups, okLog, base, edits, edited, stable,
                   dirty, raised, sent, dateChecks, peer, pipeVars, pureVars>>

\* mutation: the mapping as it was after the migration is written, not self.state
SaveWrite_WritesBase ==
    /\ pc \in {"mwrite", "fwrite"}
    /\ disk' = [kind |-> "ok", files |-> base]
    /\ pc' = IF pc = "mwrite" THEN "roots" ELSE "scan"
    /\ idx' = IF pc = "mwrite" THEN 1 ELSE idx + 1
    /\ UNCHANGED <<content, clock, daemon, mode, state, ridx, attempt, slept,
                   collection_id, collection_cache, added, modified, skipped,
                   upCalls, resolvedFor, remoteFor, lookups, okLog, base, edits, edited, stable,
                   dirty, raised, sent, dateChecks, peer, pipeVars, pureVars>>

\* _save_state, line 63: json.dump and close; the run goes on with the loop over
\* the roots (after line 279) or with the next file (after line 364)
SaveWrite ==
    /\ pc \in {"mwrite", "fwrite"}
    /\ disk' = state
    /\ pc' = IF pc = "mwrite" THEN "roots" ELSE "scan"
    /\ idx' = IF pc = "mwrite" THEN 1 ELSE idx + 1
    /\ UNCHANGED <<content, clock, daemon, mode, state, ridx, attempt, slept,
                   collection_id, collection_cache, added, modified, skipped, 
                   upCalls, resolvedFor, remoteFor, lookups, okLog, base, edits, edited, stable,
                   dirty, raised, sent, dateChecks, peer, pipeVars, pureVars>>

-----------------------------------------------------------------------------
(* The loop over the roots, lines 288-297 *)

\* "for root in roots" has a next root
AtRoots == pc = "roots" /\ ridx < Len(roots)

\* mutation: break in place of continue, a missing root ends the loop over the roots
SkipRoot_Breaks == ridx' = Len(roots) /\ pc' = "roots"

\* lines 289-291: the warning is printed and the loop continues with the next root
SkipRoot == ridx' = ridx + 1 /\ pc' = "roots"

\* the next root does not exist
RootMissing ==
    /\ AtRoots
    /\ roots[ridx + 1] \notin Existing
    /\ SkipRoot
    /\ UNCHANGED <<disk, content, clock, daemon, mode, state, idx, attempt, slept,
                   collection_id, collection_cache, added, modified, skipped,
                   upCalls, resolvedFor, remoteFor, lookups, okLog, base, edits, edited,
                   stable, dirty, raised, sent, dateChecks, peer, pipeVars, pureVars>>

\* lines 293-297: the next root exists, all_files is enumerated
RootScan ==
    /\ AtRoots
    /\ roots[ridx + 1] \in Existing
    /\ ridx' = ridx + 1
    /\ idx' = First(ridx + 1)
    /\ pc' = "scan"
    /\ UNCHANGED <<disk, content, clock, daemon, mode, state, attempt, slept,
                   collection_id, collection_cache, added, modified, skipped,
                   upCalls, resolvedFor, remoteFor, lookups, okLog, base, edits, edited,
                   stable, dirty, raised, sent, dateChecks, peer, pipeVars, pureVars>>

\* "for file_path in all_files" is exhausted
RootDone ==
    /\ pc = "scan"
    /\ idx > Last(ridx)
    /\ pc' = "roots"
    /\ sent' = <<>>
    /\ UNCHANGED <<disk, content, clock, daemon, mode, state, idx, ridx, attempt, slept,
                   collection_id, collection_cache, added, modified, skipped,
                   upCalls, resolvedFor, remoteFor, lookups, okLog, base, edits, edited,
                   stable, dirty, raised, dateChecks, peer, pipeVars, pureVars>>

-----------------------------------------------------------------------------
(* The loop over all_files, lines 299-364 *)

InLoop == pc = "scan" /\ idx <= Last(ridx)

\* lines 313-318 for the file at position f
FileIdentity(f) == IdentityOf[f]
FileHash(f) == _get_file_hash(content[f])
FileState(f) == Get(state.files, FileIdentity(f))

\* mutation: the hash is not compared, any record makes the file a skip
SameHash_AnyRecord(f) == FileState(f) # None

\* line 320: the record exists and holds the file's hash
SameHash(f) == FileState(f) # None /\ FileState(f).hash = FileHash(f)

\* the file passes every filter and is classified upload-needed
UploadNeeded(f) == /\ Enumerated(f)
                   /\ f \notin Unmarked
                   /\ ~DateSkipped(Tree[f].name)
                   /\ ~SameHash(f)

\* "continue" without counting: the file is not a regular .md file or lacks "-zh"
Continue(f) == idx' = f + 1

PassOver ==
    /\ InLoop
    /\ ~Enumerated(idx) \/ idx \in Unmarked
    /\ Continue(idx)
    /\ sent' = <<>>
    /\ UNCHANGED <<disk, content, clock, pc, daemon, mode, state, ridx, attempt, slept,
                   collection_id, collection_cache, added, modified, skipped, 
                   upCalls, resolvedFor, remoteFor, lookups, okLog, base, edits, edited, stable,
                   dirty, raised, dateChecks, peer, pipeVars, pureVars>>

\* lines 307-311 and 320-322: skipped by date, or already synced with this hash
Skip ==
    /\ InLoop
    /\ Enumerated(idx) /\ ~idx \in Unmarked
    /\ DateSkipped(Tree[idx].name) \/ SameHash(idx)
    /\ skipped' = skipped + 1
    /\ idx' = idx + 1
    /\ sent' = <<>>
    /\ dateChecks' = DateChecked(idx)
    /\ UNCHANGED <<disk, content, clock, pc, daemon, mode, state, ridx, attempt, slept,
                   collection_id, collection_cache, added, modified, 
                   upCalls, resolvedFor, remoteFor, lookups, okLog, base, edits, edited, stable,
                   dirty, raised, peer, pipeVars, pureVars>>

\* upload_file is entered with the collection id
EnterUpload(f, id) ==
    /\ collection_id' = id
    /\ pc' = "upload"
    /\ attempt' = 0
    /\ slept' = 0
    /\ upCalls' = [upCalls EXCEPT ![f] = @ + 1]
    /\ UNCHANGED <<idx, ridx, dirty, raised>>

\* mutation: a collection error ends the loop over the files of the root
SkipCollectionError_Breaks(f) ==
    /\ collection_id' = None
    /\ idx' = Last(ridx) + 1
    /\ dirty' = TRUE
    /\ UNCHANGED <<pc, ridx, attempt, slept, upCalls, raised>>

\* lines 345-347: no collection id, the file is left out
SkipCollectionError(f) ==
    /\ collection_id' = None
    /\ idx' = f + 1
    /\ dirty' = TRUE
    /\ UNCHANGED <<pc, ridx, attempt, slept, upCalls, raised>>

\* lines 338-339: the grouping name is in collection_cache
ResolveCached ==
    /\ InLoop
    /\ UploadNeeded(idx)
    /\ CacheGet(collection_cache, CollectionOf[idx]) # None
    /\ resolvedFor' = resolvedFor \cup {idx}
    /\ EnterUpload(idx, CacheGet(collection_cache, CollectionOf[idx]))
    /\ sent' = <<>>
    /\ dateChecks' = DateChecked(idx)
    /\ UNCHANGED <<disk, content, clock, daemon, mode, state, remoteFor, lookups,
                   collection_cache, added, modified, skipped, 
                   okLog, base, edits, edited, stable, peer, pipeVars, pureVars>>

\* lines 340-347: the grouping name is resolved by the remote store
ResolveRemote(lk, cr) ==
    /\ InLoop
    /\ UploadNeeded(idx)
    /\ CacheGet(collection_cache, CollectionOf[idx]) = None
    /\ resolvedFor' = resolvedFor \cup {idx}
    /\ remoteFor' = remoteFor \cup {idx}
    /\ lookups' = 1
    /\ sent' = CollectionRequests(CollectionOf[idx], lk, cr)
    /\ LET name == CollectionOf[idx]
           id == get_or_create_collection(name, lk, cr)
       IN  IF id # None
           THEN /\ collection_cache' = collection_cache \cup {<<name, id>>}
                /\ EnterUpload(idx, id)
           ELSE /\ collection_cache' = collection_cache
                /\ SkipCollectionError(idx)
    /\ dateChecks' = DateChecked(idx)
    /\ UNCHANGED <<disk, content, clock, daemon, mode, state,
                   added, modified, skipped, 
                   okLog, base, edits, edited, stable, peer, pipeVars, pureVars>>

\* lines 353-359: the Sync Record of the file just uploaded
NewRecord(f) == [filename |-> Tree[f].name,
                 hash |-> FileHash(f),
                 uploadTime |-> clock,
                 collectionId |-> collection_id,
                 sourcePath |-> Tree[f].dirs \o <<Tree[f].name>>]

\* mutation: the branch on file_state is inverted, an update is counted as added
RecordUpload_CountsAdded(f) ==
    /\ state' = [state EXCEPT !.files = Put(@, FileIdentity(f), NewRecord(f))]
    /\ IF FileState(f) # None
       THEN added' = added + 1 /\ modified' = modified
       ELSE modified' = modified + 1 /\ added' = added
    /\ okLog' = Append(okLog, <<FileIdentity(f), NewRecord(f), f>>)
    /\ pc' = "fsave"
    /\ UNCHANGED <<idx, ridx, dirty, raised>>

\* lines 352-364 when upload_file returns True: the record is written and counted,
\* then _save_state is entered
RecordUpload(f) ==
    /\ state' = [state EXCEPT !.files = Put(@, FileIdentity(f), NewRecord(f))]
    /\ IF FileState(f) # None
       THEN modified' = modified + 1 /\ added' = added
       ELSE added' = added + 1 /\ modified' = modified
    /\ okLog' = Append(okLog, <<FileIdentity(f), NewRecord(f), f>>)
    /\ pc' = "fsave"
    /\ UNCHANGED <<idx, ridx, dirty, raised>>

\* upload_file, lines 186-191: an attempt is answered 200 with code 200
UploadOk ==
    /\ pc = "upload"
    /\ attempt < RETRY_TIMES
    /\ RecordUpload(idx)
    /\ sent' = <<>>
    /\ UNCHANGED <<disk, content, clock, daemon, mode, attempt, slept,
                   collection_id, collection_cache, skipped, 
                   upCalls, resolvedFor, remoteFor, lookups, base, edits, edited, stable,
                   dateChecks, peer, pipeVars, pureVars>>

\* mutation: the record is written whatever upload_file returned
GiveUp_Records(f) ==
    /\ pc' = "scan"
    /\ idx' = f + 1
    /\ dirty' = TRUE
    /\ state' = [state EXCEPT !.files = Put(@, FileIdentity(f), NewRecord(f))]
    /\ UNCHANGED <<added, modified, okLog, ridx, attempt, slept, raised>>

\* mutation: a file that could not be uploaded ends the loop over the files
GiveUp_Breaks(f) ==
    /\ pc' = "scan"
    /\ idx' = Last(ridx) + 1
    /\ dirty' = TRUE
    /\ UNCHANGED <<state, added, modified, okLog, ridx, attempt, slept, raised>>

\* upload_file returned False: nothing is recorded, the loop goes on
GiveUp(f) ==
    /\ pc' = "scan"
    /\ idx' = f + 1
    /\ dirty' = TRUE
    /\ UNCHANGED <<state, added, modified, okLog, ridx, attempt, slept, raised>>

\* how an attempt of upload_file fails: open or requests.post raises (line 196),
\* the status is not 200 (line 194), the status is 200 and the code is not (line 192)
UploadFailures == {"exception", "status", "code"}

\* lines 199-200: time.sleep(RETRY_DELAY), then the next attempt
Retry ==
    /\ attempt' = attempt + 1
    /\ slept' = slept + 1
    /\ UNCHANGED <<pc, idx, ridx, dirty, raised, state, added, modified, okLog>>

\* mutation: the except clause of line 196 returns False at once
UploadFail_ExceptionReturns(how) ==
    /\ pc = "upload"
    /\ attempt < RETRY_TIMES
    /\ how \in UploadFailures
    /\ IF attempt < RETRY_TIMES - 1 /\ how # "exception" THEN Retry ELSE GiveUp(idx)
    /\ sent' = <<>>
    /\ UNCHANGED <<disk, content, clock, daemon, mode,
                   collection_id, collection_cache, skipped,
                   upCalls, resolvedFor, remoteFor, lookups, base, edits, edited, stable,
                   dateChecks, peer, pipeVars, pureVars>>

\* upload_file, lines 192-201: an attempt fails; sleep and retry, or return False
\* after the last one
UploadFail(how) ==
    /\ pc = "upload"
    /\ attempt < RETRY_TIMES
    /\ how \in UploadFailures
    /\ IF attempt < RETRY_TIMES - 1 THEN Retry ELSE GiveUp(idx)
    /\ sent' = <<>>
    /\ UNCHANGED <<disk, content, clock, daemon, mode,
                   collection_id, collection_cache, skipped,
                   upCalls, resolvedFor, remoteFor, lookups, base, edits, edited, stable,
                   dateChecks, peer, pipeVars, pureVars>>

\* lines 314-315: _get_file_hash opens the file, which raises OSError when it cannot
\* be read; nothing in sync_once catches it
HashRaises ==
    /\ InLoop
    /\ Enumerated(idx) /\ idx \notin Unmarked
    /\ ~DateSkipped(Tree[idx].name)
    /\ Raise("_get_file_hash")

\* the loop over the roots is over and line 366 prints the counts
RunEnd == pc = "roots" /\ ridx = Len(roots)

\* sync_once returns: a one-shot process exits, the daemon waits for the next fire
Finish ==
    /\ RunEnd
    /\ IF daemon THEN pc' = "idle" /\ UNCHANGED <<state, daemon>> ELSE ProcessGone
    /\ stable' = ~dirty
    /\ edited' = {}
    /\ raised' = "none"
    /\ LocalsGone
    /\ UNCHANGED <<disk, content, clock, mode, edits, peer, pipeVars, pureVars>>

\* the process is terminated from outside, at any point
Crash ==
    /\ pc # "off"
    /\ ProcessGone
    /\ stable' = FALSE
    /\ raised' = "none"
    /\ LocalsGone
    /\ UNCHANGED <<disk, content, clock, mode, edits, edited, peer, pipeVars, pureVars>>

-----------------------------------------------------------------------------
(* Environment: the upstream producers rewrite the tree between runs (main.py  *)
(* runs download, translation and upload one after the other); days pass.      *)

EditFile(f, c) ==
    /\ pc \in {"off", "idle"}
    /\ edits < MaxEdits
    /\ c # content[f]
    /\ content' = [content EXCEPT ![f] = c]
    /\ edits' = edits + 1
    /\ edited' = IF content[f] # 0 /\ c # 0 THEN edited \cup {f} ELSE edited \ {f}
    /\ stable' = FALSE
    /\ UNCHANGED <<disk, clock, pc, daemon, mode, state, idx, ridx, attempt, slept,
                   collection_id, collection_cache, added, modified, skipped, 
                   upCalls, resolvedFor, remoteFor, lookups, okLog, base, dirty, raised, sent, dateChecks, peer, pipeVars, pureVars>>

Tick ==
    /\ clock < MaxDay
    /\ clock' = clock + 1
    /\ stable' = FALSE
    /\ dirty' = TRUE
    /\ UNCHANGED <<disk, content, pc, daemon, mode, state, idx, ridx, attempt, slept,
                   collection_id, collection_cache, added, modified, skipped, 
                   upCalls, resolvedFor, remoteFor, lookups, okLog, base, edits, edited,
                   raised, sent, dateChecks, peer, pipeVars, pureVars>>

\* the steps a started process takes by itself: the scheduler's and those of a
\* call of sync_once
Steps ==
    \/ SchedulerStart
    \/ Fire
    \/ SyncStart
    \/ SyncRaises
    \/ SaveOpen
    \/ SaveWrite
    \/ RootMissing
    \/ RootScan
    \/ RootDone
    \/ PassOver
    \/ Skip
    \/ ResolveCached
    \/ \E lk \in LookupOutcomes, cr \in CreateOutcomes :
          ResolveRemote(lk, cr)
    \/ UploadOk
    \/ \E how \in UploadFailures : UploadFail(how)
    \/ Finish

\* everything but the termination of the process from outside
NextLive ==
    \/ \E m \in {"today", "all"}, d \in BOOLEAN : Start(m, d)
    \/ Steps
    \/ HashRaises
    \/ \E where \in SaveErrors : SaveRaises(where)
    \/ \E f \in Files, c \in 0..MaxContent : EditFile(f, c)
    \/ Tick

Next ==
    \/ NextLive
    \/ Crash

Spec == Init /\ [][Next]_vars

\* A process that is not stopped from outside goes on: the interpreter executes
\* sync_once statement after statement, every request has a timeout (lines 119,
\* 137, 186), and the cron trigger of the daemon fires every day.
SpecLive == Init /\ [][NextLive]_vars /\ WF_vars(Steps)

-----------------------------------------------------------------------------
(* The operator's hand on the state file: SYNC_STATE_DB is a plain file that   *)
(* can be removed while no run is in progress (_load_state then finds no file) *)

DeleteStore ==
    /\ pc \in {"off", "idle"}
    /\ disk.kind # "missing"
    /\ disk' = [kind |-> "missing", files |-> <<>>]
    /\ stable' = FALSE
    /\ UNCHANGED <<content, clock, pc, daemon, mode, state, idx, ridx, attempt, slept,
                   collection_id, collection_cache, added, modified, skipped,
                   upCalls, resolvedFor, remoteFor, lookups, okLog, base, edits, edited,
                   dirty, raised, sent, dateChecks, peer, pipeVars, pureVars>>

NextOperator ==
    \/ Next
    \/ DeleteStore

SpecOperator == Init /\ [][NextOperator]_vars

-----------------------------------------------------------------------------
(* Two processes of the program on one state file and one tree: nothing in     *)
(* fastgpt_sync.py or main.py locks the state file, so a one-shot run can be   *)
(* started while another process runs.  The second process is the same code,   *)
(* followed statement by statement where it reads or writes the state file;    *)
(* its collection resolution and its upload_file call are one step each,       *)
(* ending with the outcome.                                                    *)

\* what the second process leaves alone
peerRest == <<content, clock, pc, daemon, mode, state, idx, ridx, attempt, slept,
              collection_id, collection_cache, added, modified, skipped,
              upCalls, resolvedFor, remoteFor, lookups, sent, dateChecks, okLog, base,
              edits, edited, stable, dirty, raised, pipeVars, pureVars>>

\* main(), line 376: FastGPTSyncer() loads the state file
PeerStart ==
    /\ peer.pc = "off"
    /\ peer' = [pc |-> "init", state |-> _load_state(disk), idx |-> 1]
    /\ UNCHANGED <<disk, peerRest>>

\* sync_once, lines 259-279: migration in memory, then _save_state is entered
PeerSyncStart ==
    /\ peer.pc = "init"
    /\ peer.state.kind = "ok"
    /\ peer' = [pc |-> "msave",
                state |-> [peer.state EXCEPT !.files = Migrate(peer.state.files)],
                idx |-> 1]
    /\ UNCHANGED <<disk, peerRest>>

\* line 261: self.state.get raises, the one-shot process ends
PeerSyncRaises ==
    /\ peer.pc = "init"
    /\ peer.state.kind # "ok"
    /\ peer' = PeerOff
    /\ UNCHANGED <<disk, peerRest>>

\* _save_state, lines 60-62: open(path, "w") truncates the state file
PeerSaveOpen ==
    /\ peer.pc \in {"msave", "fsave"}
    /\ disk' = [kind |-> "partial", files |-> <<>>]
    /\ peer' = [peer EXCEPT !.pc = IF peer.pc = "msave" THEN "mwrite" ELSE "fwrite"]
    /\ UNCHANGED peerRest

\* _save_state, line 63: json.dump of the process's own self.state
PeerSaveWrite ==
    /\ peer.pc \in {"mwrite", "fwrite"}
    /\ disk' = peer.state
    /\ peer' = [peer EXCEPT !.pc = "scan",
                            !.idx = IF peer.pc = "mwrite" THEN 1 ELSE peer.idx + 1]
    /\ UNCHANGED peerRest

\* lines 299-322 for the file at position f, against the second process's self.state
PeerNeeds(f) ==
    LET file_state == Get(peer.state.files, FileIdentity(f))
    IN  /\ Enumerated(f)
        /\ f \notin Unmarked
        /\ ~DateSkipped(Tree[f].name)
        /\ ~(file_state # None /\ file_state.hash = FileHash(f))

\* the file is passed over or skipped
PeerPass ==
    /\ peer.pc = "scan"
    /\ peer.idx <= Len(Tree)
    /\ ~PeerNeeds(peer.idx)
    /\ peer' = [peer EXCEPT !.idx = peer.idx + 1]
    /\ UNCHANGED <<disk, peerRest>>

\* lines 353-359: the Sync Record the second process writes
PeerRecord(f) == [filename |-> Tree[f].name,
                  hash |-> FileHash(f),
                  uploadTime |-> clock,
                  collectionId |-> ColId(CollectionOf[f]),
                  sourcePath |-> Tree[f].dirs \o <<Tree[f].name>>]

\* lines 338-364: the collection is resolved and upload_file returns True (the
\* record is written, _save_state is entered), or one of them fails (the loop
\* goes on with the next file)
PeerUpload(ok) ==
    /\ peer.pc = "scan"
    /\ peer.idx <= Len(Tree)
    /\ PeerNeeds(peer.idx)
    /\ peer' = IF ok
               THEN [peer EXCEPT !.pc = "fsave",
                                 !.state.files = Put(@, FileIdentity(peer.idx),
                                                     PeerRecord(peer.idx))]
               ELSE [peer EXCEPT !.idx = peer.idx + 1]
    /\ UNCHANGED <<disk, peerRest>>

\* the loops are over, sync_once returns and the process exits
PeerFinish ==
    /\ peer.pc = "scan"
    /\ peer.idx > Len(Tree)
    /\ peer' = PeerOff
    /\ UNCHANGED <<disk, peerRest>>

PeerSteps ==
    \/ PeerStart
    \/ PeerSyncStart
    \/ PeerSyncRaises
    \/ PeerSaveOpen
    \/ PeerSaveWrite
    \/ PeerPass
    \/ \E ok \in BOOLEAN : PeerUpload(ok)
    \/ PeerFinish

NextTwo ==
    \/ \E d \in BOOLEAN : Start("all", d)
    \/ Steps
    \/ PeerSteps

SpecTwo == Init /\ [][NextTwo]_vars

-----------------------------------------------------------------------------
(* The upstream producers: main.py runs download, translation and upload as   *)
(* child processes one after the other; the downloader writes study records   *)
(* marked "pending", process_pending_sync of ctgov_full_sync_rag.py turns     *)
(* them into documents and marks them "synced".                                *)

\* auto_pipeline, lines 48-52: the scripts of the three steps
steps == <<"daily_ctgov_check_tgbot.py", "ctgov_full_sync_rag.py", "fastgpt_sync.py">>

\* what the upstream producers leave alone
upstreamRest == <<progVars, pureVars>>

\* auto_pipeline is called, lines 43-54
auto_pipeline ==
    /\ ppc = "off"
    /\ ppc' = "loop"
    /\ step' = 0
    /\ success_count' = 0
    /\ started' = <<>>
    /\ exits' = <<>>
    /\ report' = None
    /\ UNCHANGED <<recs, tpc, tidx, worked, errs, upstreamRest>>

\* mutation: no break, the loop goes on with the next step after a failed one
StepFailed_Continues == ppc' = "loop" /\ success_count' = success_count

\* lines 59-61: run_step returned False, the loop is left
StepFailed == ppc' = "break" /\ success_count' = success_count

\* lines 57-58: run_step returned True
StepSucceeded == ppc' = "loop" /\ success_count' = success_count + 1

\* the loop takes the next step and run_step calls subprocess.run (line 33), which
\* starts the child, or raises without a child (line 39: python3 cannot be run)
run_step(launched) ==
    /\ ppc = "loop"
    /\ step < Len(steps)
    /\ step' = step + 1
    /\ IF launched
       THEN /\ started' = Append(started, steps[step + 1])
            /\ ppc' = "child"
            /\ UNCHANGED <<success_count, exits>>
       ELSE /\ exits' = Append(exits, "Exception")
            /\ StepFailed
            /\ UNCHANGED started
    /\ UNCHANGED <<report, recs, tpc, tidx, worked, errs, upstreamRest>>

\* the child has done its work: the translation script has returned from
\* process_pending_sync; the other two scripts are not followed
ChildDone == step = 2 => tpc = "done"

\* the child exits and subprocess.run returns (code 0, line 35) or raises
\* CalledProcessError (line 36); a child can end with another code at any point
ChildExit(code) ==
    /\ ppc = "child"
    /\ code = 0 => ChildDone
    /\ IF code = 0
       THEN exits' = Append(exits, "ok") /\ StepSucceeded
       ELSE exits' = Append(exits, "CalledProcessError") /\ StepFailed
    /\ tpc' = "off"
    /\ tidx' = 1
    /\ UNCHANGED <<step, started, report, recs, worked, errs, upstreamRest>>

\* lines 63-65: after the loop, by its end or by break, the counts are printed
PipelineReport ==
    /\ ppc = "break" \/ (ppc = "loop" /\ step = Len(steps))
    /\ report' = <<success_count, Len(steps)>>
    /\ ppc' = "off"
    /\ UNCHANGED <<step, success_count, started, exits, recs, tpc, tidx, worked, errs,
                   upstreamRest>>

\* daily_ctgov_check_tgbot.py, save_study_json: the downloader writes the record
\* of a study it fetched, marked "pending", over any file of that name
save_study_json(r) ==
    /\ ppc = "child" /\ step = 1
    /\ recs' = [recs EXCEPT ![r] = "pending"]
    /\ UNCHANGED <<ppc, step, success_count, started, exits, report, tpc, tidx,
                   worked, errs, upstreamRest>>

\* ctgov_full_sync_rag.py: process_pending_sync is called, lines 205-214; it
\* returns at once when output/ does not exist
process_pending_sync ==
    /\ ppc = "child" /\ step = 2
    /\ tpc = "off"
    /\ tpc' = IF \A r \in Recs : recs[r] = "absent" THEN "done" ELSE "load"
    /\ tidx' = 1
    /\ worked' = {}
    /\ errs' = {}
    /\ UNCHANGED <<ppc, step, success_count, started, exits, report, recs, upstreamRest>>

\* the loop over the JSON files goes on with the next file, or is over
NextFile ==
    /\ tidx' = tidx + 1
    /\ tpc' = IF tidx + 1 \in Recs THEN "load" ELSE "done"

\* line 270: except Exception prints the error
Caught ==
    /\ errs' = errs \cup {tidx}
    /\ NextFile

\* lines 216-220: the file is read; json.load raises on a file that is not
\* complete JSON; a record whose sync_status is not "pending" is left
LoadRecord ==
    /\ tpc = "load"
    /\ IF recs[tidx] = "absent"
       THEN NextFile /\ UNCHANGED errs
       ELSE IF recs[tidx] = "partial"
       THEN Caught
       ELSE IF recs[tidx] # "pending"
       THEN NextFile /\ UNCHANGED errs
       ELSE tpc' = "work" /\ UNCHANGED <<tidx, errs>>
    /\ UNCHANGED <<ppc, step, success_count, started, exits, report, recs, worked,
                   upstreamRest>>

\* lines 222-257: the documents are generated and written (translate_text
\* returns the text untranslated when the translation fails), or one of the
\* statements raises
WriteDocuments(ok) ==
    /\ tpc = "work"
    /\ IF ok
       THEN /\ worked' = worked \cup {tidx}
            /\ tpc' = "open"
            /\ UNCHANGED <<tidx, errs>>
       ELSE Caught /\ UNCHANGED worked
    /\ UNCHANGED <<ppc, step, success_count, started, exits, report, recs, upstreamRest>>

\* lines 260-265: open(json_file, 'w') truncates the record, or raises
OpenRecord(ok) ==
    /\ tpc = "open"
    /\ IF ok
       THEN /\ recs' = [recs EXCEPT ![tidx] = "partial"]
            /\ tpc' = "dump"
            /\ UNCHANGED <<tidx, errs>>
       ELSE Caught /\ UNCHANGED recs
    /\ UNCHANGED <<ppc, step, success_count, started, exits, report, worked, upstreamRest>>

\* line 266: json.dump writes the record with sync_status "synced", or raises
\* (OSError: no space left) and leaves the file as far as it was written
DumpRecord(ok) ==
    /\ tpc = "dump"
    /\ IF ok
       THEN /\ recs' = [recs EXCEPT ![tidx] = "synced"]
            /\ NextFile
            /\ UNCHANGED errs
       ELSE Caught /\ UNCHANGED recs
    /\ UNCHANGED <<ppc, step, success_count, started, exits, report, worked, upstreamRest>>

NextUpstream ==
    \/ auto_pipeline
    \/ \E launched \in BOOLEAN : run_step(launched)
    \/ \E code \in {0, 1} : ChildExit(code)
    \/ PipelineReport
    \/ \E r \in Recs : save_study_json(r)
    \/ process_pending_sync
    \/ LoadRecord
    \/ \E ok \in BOOLEAN : WriteDocuments(ok)
    \/ \E ok \in BOOLEAN : OpenRecord(ok)
    \/ \E ok \in BOOLEAN : DumpRecord(ok)

SpecUpstream == Init /\ [][NextUpstream]_vars

-----------------------------------------------------------------------------
(* The pure functions on their own: _get_file_identity, the migration loop and  *)
(* the derivation of the grouping name, applied to inputs drawn from bounded    *)
(* sets.                                                                        *)

\* longest state file given to the migration
MaxStore == 3

Prefixes == {<<>>, today_str(1) \o Dash, <<"N">>, <<"N", "C">>}

Tokens == {<<>>,
           NCT1,
           <<"N", "C", "T", "0", "0", "0", "0", "0", "0", "1">>,
           NCT1 \o <<"9">>,
           <<"N", "C", "X", "0", "0", "0", "0", "0", "0", "0", "1">>,
           <<"n", "c", "t", "0", "0", "0", "0", "0", "0", "0", "1">>,
           <<"N", "C", "T", "0", "0", "0", "0", "-", "0", "0", "1">>,
           NCT2 \o <<"_">> \o NCT1,
           <<"N", "C", "T">> \o NCT2}

Suffixes == {<<>>, Zh \o Md, Md, <<"7">>}

FileNames == {p \o t \o x : p \in Prefixes, t \in Tokens, x \in Suffixes}

\* keys of a state file: raw file names of older versions, and identities
KeyPool == {NCT1 \o Md,
            today_str(1) \o Dash \o NCT1 \o Zh \o Md,
            NCT1,
            NCT2 \o Zh \o Md,
            Notes \o Zh \o Md}

RecPool == {[hash |-> _get_file_hash(1), uploadTime |-> 1,
             collectionId |-> ColId("lung"), sourcePath |-> <<"lung">>],
            [filename |-> Notes \o Md, hash |-> _get_file_hash(2), uploadTime |-> 2,
             collectionId |-> ColId("history"), sourcePath |-> <<"history">>]}

\* state files of at most MaxStore records: a JSON object has no key twice
Stores == UNION {{st \in [1..n -> KeyPool \X RecPool] :
                     \A i, j \in 1..n : i # j => st[i][1] # st[j][1]} : n \in 0..MaxStore}

\* scan roots, as path parts
RootPool == {<<"output">>, <<"history">>, <<"data", "output">>, <<"history", "output">>,
             <<"data", "history">>, <<"cn">>}

\* directories between the root and the file
DirPool == {<<>>, <<"lung">>, <<"cn">>, <<"zh">>, <<"lung", "cn">>, <<"lung", "en">>,
            <<"history">>, <<"history", "lung">>, <<"lung", "history", "cn">>,
            <<"output">>, <<"cn", "cn">>, <<"lung", "output", "zh">>}

Paths == {[root |-> r, dirs |-> d, name |-> today_str(1) \o Dash \o NCT1 \o Zh \o Md] :
             r \in RootPool, d \in DirPool}

InitPure ==
    /\ disk = EmptyStore
    /\ content = [f \in Files |-> 1]
    /\ clock = 1
    /\ pc = "off"
    /\ daemon = FALSE
    /\ mode = "today"
    /\ state = EmptyStore
    /\ ridx = 0
    /\ idx = 1
    /\ attempt = 0
    /\ slept = 0
    /\ collection_id = None
    /\ collection_cache = {}
    /\ added = 0 /\ modified = 0 /\ skipped = 0
    /\ upCalls = [f \in Files |-> 0]
    /\ resolvedFor = {}
    /\ remoteFor = {}
    /\ lookups = 0
    /\ sent = <<>>
    /\ dateChecks = {}
    /\ okLog = <<>>
    /\ base = <<>>
    /\ edits = 0
    /\ edited = {}
    /\ stable = FALSE
    /\ dirty = FALSE
    /\ raised = "none"
    /\ peer = PeerOff
    /\ InitUpstream
    /\ pin \in {[op |-> "resolve", arg |-> n] : n \in FileNames}
               \cup {[op |-> "migrate", arg |-> st] : st \in Stores}
               \cup {[op |-> "group", arg |-> file] : file \in Paths}
    /\ pout = None
    /\ pout2 = None

\* identity = _get_file_identity(filename)
ApplyResolve ==
    /\ pin.op = "resolve"
    /\ pout = None
    /\ pout' = [val |-> _get_file_identity(pin.arg)]
    /\ UNCHANGED <<pin, pout2, progVars, pipeVars>>

\* the identity is resolved again, as migration does with a key
ApplyResolveAgain ==
    /\ pin.op = "resolve"
    /\ pout # None /\ pout2 = None
    /\ pout2' = [val |-> _get_file_identity(pout.val)]
    /\ UNCHANGED <<pin, pout, progVars, pipeVars>>

\* the migration of one run
ApplyMigrate ==
    /\ pin.op = "migrate"
    /\ pout = None
    /\ pout' = [val |-> Migrate(pin.arg)]
    /\ UNCHANGED <<pin, pout2, progVars, pipeVars>>

\* the migration of the next run, on the migrated store
ApplyMigrateAgain ==
    /\ pin.op = "migrate"
    /\ pout # None /\ pout2 = None
    /\ pout2' = [val |-> Migrate(pout.val)]
    /\ UNCHANGED <<pin, pout, progVars, pipeVars>>

\* lines 324-336 for one file path
ApplyGroup ==
    /\ pin.op = "group"
    /\ pout = None
    /\ pout' = [val |-> CollectionName(pin.arg)]
    /\ UNCHANGED <<pin, pout2, progVars, pipeVars>>

NextPure ==
    \/ ApplyResolve
    \/ ApplyResolveAgain
    \/ ApplyMigrate
    \/ ApplyMigrateAgain
    \/ ApplyGroup

SpecPure == InitPure /\ [][NextPure]_vars

-----------------------------------------------------------------------------
(* Properties *)

\* sync_once is executing
Running == pc \in {"msave", "mwrite", "roots", "scan", "upload", "fsave", "fwrite"}

\* position of the last successful upload of identity id in this run (0: none)
LastOk(id) == IF \E j \in 1..Len(okLog) : okLog[j][1] = id
              THEN CHOOSE j \in 1..Len(okLog) :
                      /\ okLog[j][1] = id
                      /\ \A k \in (j + 1)..Len(okLog) : okLog[k][1] # id
              ELSE 0

\* what a process started now would load from the state file
Persisted == _load_state(disk).files

\* C1: a run that follows a completed run in which every needed upload succeeded,
\* over the same tree, on the same date and in the same mode, calls upload_file
\* for no file and counts added = 0 and modified = 0.
C1_SecondRunUploadsNothing ==
    (stable /\ Running) =>
        /\ \A f \in Files : upCalls[f] = 0
        /\ added = 0
        /\ modified = 0

\* C2: when a file whose bytes changed since the last completed run, and whose
\* identity has a record, is uploaded successfully, it is the only upload_file
\* call for that file in the run, the record of its identity gets the digest of
\* the new bytes, modified grows by one and added stays.
C2_ChangedFileReuploadedOnce ==
    /\ [](Running => \A f \in edited : upCalls[f] <= 1)
    /\ [][(pc = "upload" /\ pc' = "fsave" /\ idx \in edited /\ FileState(idx) # None) =>
             /\ upCalls[idx] = 1
             /\ Get(state'.files, IdentityOf[idx]).hash = <<"md5", content[idx]>>
             /\ modified' = modified + 1
             /\ added' = added]_vars

C2_Witness ==
    /\ pc = "fsave"
    /\ idx \in edited
    /\ modified = 1 /\ added = 0
    /\ Get(base, IdentityOf[idx]) # None
    /\ Get(base, IdentityOf[idx]).hash # <<"md5", content[idx]>>
    /\ Get(state.files, IdentityOf[idx]).hash = <<"md5", content[idx]>>

\* C3: a failed upload attempt, and the return of upload_file after the last one,
\* leave self.state, the state file and the counters added and modified as they were.
C3_FailedUploadChangesNothing ==
    [][(pc = "upload" /\ pc' \in {"upload", "scan"}) =>
          /\ state' = state
          /\ disk' = disk
          /\ added' = added
          /\ modified' = modified]_vars

\* upload_file has just returned False for a file whose identity has a record
C3_Witness ==
    /\ pc = "scan"
    /\ idx > 1
    /\ upCalls[idx - 1] = 1
    /\ \A j \in 1..Len(okLog) : okLog[j][3] # idx - 1
    /\ dirty
    /\ Get(state.files, IdentityOf[idx - 1]) # None
    /\ Get(state.files, IdentityOf[idx - 1]) = Get(base, IdentityOf[idx - 1])
    /\ disk = state

\* C4: during a run, the record of every identity uploaded successfully in the run
\* is the one of its last successful upload: the digest of that file's bytes, its
\* name, its collection and its path.
C4_RecordIsLastUpload ==
    Running =>
        \A id \in Identities :
            LastOk(id) # 0 =>
                LET f == okLog[LastOk(id)][3]
                    rec == Get(state.files, id)
                IN  /\ rec # None
                    /\ rec.hash = <<"md5", content[f]>>
                    /\ rec.filename = Tree[f].name
                    /\ rec.collectionId = ColId(CollectionName(Tree[f]))
                    /\ rec.sourcePath = Tree[f].dirs \o <<Tree[f].name>>

\* two files of one identity were uploaded in this run
C4_Witness ==
    /\ Running
    /\ \E j, k \in 1..Len(okLog) :
          /\ j < k
          /\ okLog[j][1] = okLog[k][1]
          /\ okLog[j][3] # okLog[k][3]
          /\ okLog[j][2].hash # okLog[k][2].hash

\* C5: at every point of a run where the process may be terminated, every record of
\* the state file is (once the migrated store has been saved) one the run started
\* with or one of a successful upload of the run, and at most one identity uploaded
\* in the run lacks its last record there.
C5_CrashConsistent ==
    Running =>
        /\ pc \notin {"msave", "mwrite"} =>
              \A i \in 1..Len(Persisted) :
                  \/ Get(base, Persisted[i][1]) = Persisted[i][2]
                  \/ \E j \in 1..Len(okLog) :
                        okLog[j][1] = Persisted[i][1] /\ okLog[j][2] = Persisted[i][2]
        /\ Cardinality({id \in Identities :
                           /\ LastOk(id) # 0
                           /\ Get(Persisted, id) # okLog[LastOk(id)][2]}) <= 1

\* C6: _save_state never leaves the state file unparseable: a state file that
\* parses is followed by a state file that parses.
C6_SaveIsAtomic ==
    [][disk.kind = "ok" => disk'.kind = "ok"]_vars

TokenAt(s, i) == /\ i \in 1..(Len(s) - 10)
                 /\ SubSeq(s, i, i + 2) = <<"N", "C", "T">>
                 /\ \A k \in (i + 3)..(i + 10) : s[k] \in Digits

\* first key of a state file that resolves to identity id
FirstKeyOf(files, id) ==
    files[CHOOSE i \in 1..Len(files) :
             /\ _get_file_identity(files[i][1]) = id
             /\ \A j \in 1..(i - 1) : _get_file_identity(files[j][1]) # id]

\* C8: the migrated store has exactly the identities the old keys resolve to; each
\* one holds the record of the first old key that resolves to it (with that key as
\* its filename when the record had none); migrating the migrated store changes
\* nothing.
C8_MigrationFirstWinsIdempotent ==
    (pin # None /\ pin.op = "migrate" /\ pout # None) =>
        LET old == pin.arg
            new == pout.val
        IN  /\ Keys(new) = {_get_file_identity(old[i][1]) : i \in 1..Len(old)}
            /\ Len(new) = Cardinality(Keys(new))
            /\ \A id \in Keys(new) :
                  LET first == FirstKeyOf(old, id)
                  IN  /\ \A f \in DOMAIN first[2] : Get(new, id)[f] = first[2][f]
                      /\ DOMAIN Get(new, id) = DOMAIN first[2] \cup {"filename"}
                      /\ "filename" \notin DOMAIN first[2] => Get(new, id).filename = first[1]
            /\ pout2 # None => pout2.val = new

\* two old keys of one identity, with different records, were merged and the
\* migrated store was migrated again
C8_Witness ==
    /\ pin # None /\ pin.op = "migrate"
    /\ pout # None /\ pout2 # None
    /\ Len(pout.val) = 2 /\ Len(pin.arg) = 3
    /\ \E i, j \in 1..Len(pin.arg) :
          /\ i < j
          /\ pin.arg[i][1] # pin.arg[j][1]
          /\ _get_file_identity(pin.arg[i][1]) = _get_file_identity(pin.arg[j][1])
          /\ pin.arg[i][2] # pin.arg[j][2]

\* C9: for a file name that holds the token NCT + 8 digits, the identity is the
\* first such token; for any other file name it is the file name.
C9_ResolveReturnsFirstToken ==
    (pin # None /\ pin.op = "resolve" /\ pout # None) =>
        LET s == pin.arg
        IN  IF \E i \in 1..Len(s) : TokenAt(s, i)
            THEN \E i \in 1..Len(s) :
                    /\ TokenAt(s, i)
                    /\ \A j \in 1..(i - 1) : ~TokenAt(s, j)
                    /\ pout.val = SubSeq(s, i, i + 10)
            ELSE pout.val = s

\* a name with two tokens, the first one not at its start, was resolved
C9_Witness ==
    /\ pin # None /\ pin.op = "resolve" /\ pout # None
    /\ \E i, j \in 1..Len(pin.arg) : 1 < i /\ i < j /\ TokenAt(pin.arg, i) /\ TokenAt(pin.arg, j)
    /\ pout.val = NCT2

\* the file name does not hold the characters "-zh" in a row
LacksMarker(s) == ~\E i \in 1..Len(s) : i + 2 <= Len(s) /\ s[i] = "-" /\ s[i + 1] = "z" /\ s[i + 2] = "h"

\* C10: in a run, in either mode, a file whose name lacks "-zh" gets no collection
\* resolution and no upload_file call, and the step that passes it over changes
\* neither self.state nor the state file.
C10_UnmarkedNeverUploaded ==
    /\ [](\A f \in Files :
             LacksMarker(Tree[f].name) =>
                 /\ upCalls[f] = 0
                 /\ f \notin resolvedFor
                 /\ \A j \in 1..Len(okLog) : okLog[j][3] # f)
    /\ [][(InLoop /\ LacksMarker(Tree[idx].name) /\ pc' = "scan" /\ idx' = idx + 1) =>
             (state' = state /\ disk' = disk)]_vars

\* in mode "all" a run has passed over the existing, unmarked file and
\* uploaded a later one
C10_Witness ==
    /\ pc = "fsave"
    /\ mode = "all"
    /\ \E f \in Files : f < idx /\ LacksMarker(Tree[f].name) /\ content[f] # 0

\* the step taken by sync_once for the file at idx, the run going on after it
Moves == InLoop /\ (idx' # idx \/ pc' # pc) /\ pc' \in {"scan", "upload"}

\* the file exists, its name holds "-zh" and does not begin with today's date
NotOfToday(f) == /\ content[f] # 0
                 /\ ~LacksMarker(Tree[f].name)
                 /\ SubSeq(Tree[f].name, 1, 10) # today_str(clock)

\* C11: in mode "today" the step sync_once takes for an existing file whose name
\* holds "-zh" and does not begin with the current date counts it as skipped and
\* goes on, with no collection resolution, no upload_file call and no record; in
\* mode "all" the step it takes for such a file, when its identity has no record
\* or a record with another hash, is the resolution of its collection, it is not
\* counted as skipped, and upload_file is called for it when the resolution gives
\* an id.
C11_FilterMode ==
    [][(Moves /\ NotOfToday(idx)) =>
          /\ mode = "today" =>
                /\ skipped' = skipped + 1
                /\ idx' = idx + 1 /\ pc' = "scan"
                /\ upCalls' = upCalls /\ resolvedFor' = resolvedFor
                /\ state' = state /\ disk' = disk
          /\ (/\ mode = "all"
              /\ \/ Get(state.files, IdentityOf[idx]) = None
                 \/ Get(state.files, IdentityOf[idx]).hash # <<"md5", content[idx]>>) =>
                /\ skipped' = skipped
                /\ idx \in resolvedFor'
                /\ collection_id' # None =>
                      (pc' = "upload" /\ upCalls'[idx] = upCalls[idx] + 1)]_vars

\* in mode "all" a file that is not of today was uploaded and recorded
C11_Witness ==
    /\ pc = "fsave"
    /\ mode = "all"
    /\ NotOfToday(idx)
    /\ upCalls[idx] = 1
    /\ Get(state.files, IdentityOf[idx]).hash = <<"md5", content[idx]>>

\* files of this run for which get_or_create_collection returned no id
Unresolved == {f \in remoteFor : upCalls[f] = 0}

\* C12: the step sync_once takes for an upload-needed file whose grouping name
\* cannot be resolved leaves the file out (no upload_file call, no record, self.state
\* and the state file as they were) and goes on with the next file; whatever failed
\* earlier in the run, an upload-needed file whose grouping name is resolved enters
\* upload_file with the id of its own grouping name, and every record written in the
\* run holds the id of the grouping name of its file.
C12_CollectionFailureIsolated ==
    /\ [][(Moves /\ UploadNeeded(idx)) =>
             \/ /\ collection_id' = None
                /\ idx' = idx + 1 /\ pc' = "scan"
                /\ upCalls' = upCalls /\ okLog' = okLog
                /\ state' = state /\ disk' = disk
             \/ /\ collection_id' = ColId(CollectionName(Tree[idx]))
                /\ idx' = idx /\ pc' = "upload"
                /\ upCalls'[idx] = upCalls[idx] + 1]_vars
    /\ [](Running =>
             /\ \A f \in Unresolved : \A j \in 1..Len(okLog) : okLog[j][3] # f
             /\ \A j \in 1..Len(okLog) :
                   okLog[j][2].collectionId = ColId(CollectionName(Tree[okLog[j][3]])))

\* the resolution of "history" failed for an upload-needed file, and a later file of
\* another grouping name, resolved by the remote store after that, was uploaded and
\* recorded
C12_Witness ==
    /\ pc = "fsave"
    /\ \E f \in Unresolved : f < idx /\ CollectionName(Tree[f]) = "history"
    /\ CollectionName(Tree[idx]) # "history"
    /\ idx \in remoteFor
    /\ okLog[Len(okLog)][3] = idx

\* C13: in a run, get_or_create_collection is called for at most one file of each
\* grouping name: after a failed resolution no request is sent again for that name.
C13_ResolutionNotRetriedPerFile ==
    Running =>
        \A f, g \in remoteFor :
            CollectionName(Tree[f]) = CollectionName(Tree[g]) => f = g

\* C14: while upload_file runs it has made fewer than RETRY_TIMES failed attempts
\* and has slept once after each of them; it returns True at the first attempt
\* that succeeds, without another attempt or sleep; every failed attempt, whatever
\* made it fail, is followed by one sleep and one more attempt, except the one
\* numbered RETRY_TIMES, after which it returns False without sleeping.
C14_UploadRetryBounded ==
    /\ [](pc = "upload" => (attempt \in 0..(RETRY_TIMES - 1) /\ slept = attempt))
    /\ [][(pc = "upload" /\ pc' = "fsave") =>
             (attempt' = attempt /\ slept' = slept /\ upCalls' = upCalls)]_vars
    /\ [][(pc = "upload" /\ pc' = "upload" /\ <<attempt, slept>>' # <<attempt, slept>>) =>
             /\ attempt' = attempt + 1 /\ attempt' < RETRY_TIMES
             /\ slept' = slept + 1
             /\ upCalls' = upCalls /\ idx' = idx]_vars
    /\ [][(pc = "upload" /\ pc' = "scan") =>
             /\ attempt = RETRY_TIMES - 1
             /\ slept' = slept /\ slept = RETRY_TIMES - 1
             /\ okLog' = okLog]_vars

\* upload_file has just returned False after RETRY_TIMES failed attempts
C14_Witness ==
    /\ pc = "scan"
    /\ idx > 1
    /\ upCalls[idx - 1] = 1
    /\ \A j \in 1..Len(okLog) : okLog[j][3] # idx - 1
    /\ attempt = RETRY_TIMES - 1
    /\ slept = RETRY_TIMES - 1

\* C15: get_or_create_collection gives up, and the file is left out for a
\* collection error, only after RETRY_TIMES list requests were sent for the name.
C15_ResolutionRetried ==
    [][(InLoop /\ remoteFor' # remoteFor /\ collection_id' = None /\ idx' = idx + 1) =>
          lookups' = RETRY_TIMES]_vars

\* upload_file has just returned False for the file before idx
GaveUp == /\ pc = "scan"
          /\ idx > 1
          /\ upCalls[idx - 1] = 1
          /\ \A j \in 1..Len(okLog) : okLog[j][3] # idx - 1

C17_DaemonKeepsFiring ==
    /\ [][daemon => (daemon' /\ pc' # "off")]_vars
    /\ [][(daemon /\ (pc = "due" \/ Running) /\ pc' # "due" /\ ~Running') =>
             pc' = "idle"]_vars
    /\ (daemon ~> (pc = "due"))
    /\ (daemon ~> (pc = "idle"))

\* a run of the daemon ended by raising, and the next fire time has come
C17_Witness ==
    /\ daemon
    /\ pc = "due"
    /\ raised # "none"

\* C18: no run is ended by a failure to read a discovered file or by a failure to
\* write the state file in an existing directory.
C18_OnlyStoreLocationIsFatal ==
    raised \notin {"_get_file_hash", "open", "json.dump"}

\* C19: the step sync_once takes at a root that does not exist moves on to the next
\* root and changes nothing else of the run; when the final count report is reached,
\* every file of every existing root, before and after the missing one, has been
\* gone through.
C19_MissingRootSkipped ==
    /\ [][(AtRoots /\ roots[ridx + 1] \notin Existing /\ Running'
              /\ <<pc, ridx>>' # <<pc, ridx>>) =>
             /\ ridx' = ridx + 1 /\ pc' = "roots"
             /\ UNCHANGED <<state, disk, added, modified, skipped, upCalls, okLog,
                            dirty, raised>>]_vars
    /\ [](RunEnd => \A f \in Files :
                       (\E r \in 1..Len(roots) : roots[r] \in Existing /\ Tree[f].root = roots[r])
                           => f < idx)

\* the final count report is reached with a file of the root before the missing
\* one and a file of the root after it uploaded
C19_Witness ==
    /\ RunEnd
    /\ \E q \in 1..Len(roots) :
          /\ roots[q] \notin Existing
          /\ \E j \in 1..Len(okLog) : \E r \in 1..(q - 1) : Tree[okLog[j][3]].root = roots[r]
          /\ \E j \in 1..Len(okLog) : \E r \in (q + 1)..Len(roots) : Tree[okLog[j][3]].root = roots[r]

\* Path.name of the last part
PathName(parts) == IF parts = <<>> THEN "" ELSE parts[Len(parts)]

\* C20: the grouping name of a file path is "history" when a segment of the path
\* is "history", also when that segment is the scan root's; otherwise it is the
\* name of the parent directory, or of the grandparent when the parent is named
\* cn, zh or en; "Default_Collection" is used only when that name is empty or is
\* the name of the scan root.
C20_GroupingPrecedence ==
    (pin # None /\ pin.op = "group" /\ pout # None) =>
        LET parts == pin.arg.root \o pin.arg.dirs
            parent == PathName(parts)
            above == PathName(SubSeq(parts, 1, Len(parts) - 1))
            name == IF parent \in {"cn", "zh", "en"} THEN above ELSE parent
        IN  IF \E i \in 1..Len(parts) : parts[i] = "history"
            THEN pout.val = "history"
            ELSE IF name \in {"", PathName(pin.arg.root)}
                 THEN pout.val = "Default_Collection"
                 ELSE pout.val = name

\* C21: every run, the second and later runs of a daemon included, starts from the
\* state file as it is at that time: the store the run migrates and classifies
\* against is the one _load_state reads from the file when sync_once is called
\* (a deleted file gives the empty store).
C21_RunStartsFromPersistedStore ==
    [][(Called /\ pc' = "msave") => state'.files = Migrate(_load_state(disk).files)]_vars

\* C22: a call of sync_once that gets past the load check begins with the migration
\* and enters _save_state with the migrated mapping; as long as that save is not
\* finished no root has been scanned and no remote call has been made; and the loop
\* over the roots is entered only from the end of that save, with the state file
\* holding the migrated mapping -- whether or not the migration changed a key.
C22_MigrationPersistedFirst ==
    /\ [](pc \in {"msave", "mwrite"} =>
             /\ ridx = 0
             /\ remoteFor = {} /\ resolvedFor = {} /\ okLog = <<>>
             /\ \A f \in Files : upCalls[f] = 0
             /\ state.files = base)
    /\ [][(Called /\ pc' \notin {pc, "off", "idle"}) =>
             /\ pc' = "msave"
             /\ state'.files = Migrate(state.files)
             /\ base' = state'.files]_vars
    /\ [][(pc \notin {"roots", "scan"} /\ pc' = "roots") =>
             /\ pc = "mwrite"
             /\ ridx' = 0
             /\ disk' = [kind |-> "ok", files |-> base]]_vars

\* the loop over the roots is about to begin after the save of an empty store, which
\* the migration left as it was: the state file, missing or unreadable before, now
\* holds the empty mapping
C22_Witness ==
    /\ pc = "roots" /\ ridx = 0
    /\ base = <<>>
    /\ disk = EmptyStore
    /\ state = EmptyStore

\* the grouping name of the file at hand has an entry in collection_cache
Memoized == \E p \in collection_cache : p[1] = CollectionOf[idx]

\* C23: at the start of a run collection_cache is empty; within a run it only grows,
\* by the name and id a get_or_create_collection call has just returned, and holds
\* one id per name; an upload-needed file whose grouping name is in the cache goes
\* to upload_file with the cached id and without any request to the remote store;
\* and a create request is only ever sent after a list request of the same call
\* that did not return a collection of exactly that name.
C23_ResolutionMemoizedPerRun ==
    /\ []((pc \in {"msave", "mwrite"} \/ (pc = "roots" /\ ridx = 0)) =>
             collection_cache = {})
    /\ [](\A p, q \in collection_cache : p[1] = q[1] => p = q)
    /\ [](\A i \in 1..Len(sent) :
             sent[i].req = "create" =>
                 /\ i = 2
                 /\ sent[1].req = "list" /\ sent[1].name = sent[i].name
                 /\ sent[1].res # "found")
    /\ [][(Called /\ pc' \notin {pc, "off", "idle"}) => collection_cache' = {}]_vars
    /\ [][(Running /\ Running') =>
             /\ collection_cache \subseteq collection_cache'
             /\ collection_cache' # collection_cache =>
                   /\ collection_cache' =
                          collection_cache \cup {<<CollectionOf[idx], collection_id'>>}
                   /\ sent' # <<>> /\ sent'[Len(sent')].res \in {"found", "ok"}]_vars
    /\ [][(InLoop /\ UploadNeeded(idx) /\ Memoized /\ (pc' # pc \/ idx' # idx) /\ Running') =>
             /\ pc' = "upload" /\ idx' = idx
             /\ <<CollectionOf[idx], collection_id'>> \in collection_cache
             /\ sent' = <<>>
             /\ remoteFor' = remoteFor /\ lookups' = lookups
             /\ collection_cache' = collection_cache]_vars

\* a file goes to upload_file with the id cached when an earlier file of the run
\* with the same grouping name was resolved by the remote store, which had to
\* create the collection
C23_Witness ==
    /\ pc = "upload"
    /\ idx \notin remoteFor
    /\ sent = <<>>
    /\ \E f \in remoteFor : f < idx /\ CollectionOf[f] = CollectionOf[idx]
    /\ <<CollectionOf[idx], collection_id>> \in collection_cache

\* the file exists, its name holds "-zh" and it passes the date rule of the mode
Eligible(f) == /\ content[f] # 0
               /\ ~LacksMarker(Tree[f].name)
               /\ mode = "today" => SubSeq(Tree[f].name, 1, 10) = today_str(clock)

\* the store holds a record for the identity of the file, with the digest of its bytes
Synced(f) == /\ Get(state.files, IdentityOf[f]) # None
             /\ Get(state.files, IdentityOf[f]).hash = <<"md5", content[f]>>

\* C24: the step sync_once takes for an eligible file counts it as skipped, with no
\* remote call and no write to the store or the state file, exactly when the store
\* holds a record for its identity with the digest of its bytes; otherwise the file
\* goes to collection resolution uncounted.  From there to the success of its upload
\* the store stays as it was at classification, and the success adds one to added
\* when the identity had no record and one to modified when it had, and to nothing
\* else; the counters change in no other step, so that added + modified is the
\* number of successful uploads of the run, the final report included.
C24_ClassifyAndCount ==
    /\ [](Running => added + modified = Len(okLog))
    /\ [][(Moves /\ Eligible(idx)) =>
             IF Synced(idx)
             THEN /\ skipped' = skipped + 1
                  /\ idx' = idx + 1 /\ pc' = "scan"
                  /\ sent' = <<>> /\ remoteFor' = remoteFor /\ resolvedFor' = resolvedFor
                  /\ upCalls' = upCalls
                  /\ state' = state /\ disk' = disk
             ELSE /\ skipped' = skipped
                  /\ idx \in resolvedFor'
                  /\ pc' = "upload" => upCalls'[idx] = upCalls[idx] + 1]_vars
    /\ [][(pc' = "upload") => state' = state]_vars
    /\ [][(pc = "upload" /\ pc' = "fsave") =>
             /\ IF Get(state.files, IdentityOf[idx]) = None
                THEN added' = added + 1 /\ modified' = modified
                ELSE modified' = modified + 1 /\ added' = added
             /\ skipped' = skipped
             /\ Len(okLog') = Len(okLog) + 1]_vars
    /\ [][(Running /\ Running' /\ <<added, modified>>' # <<added, modified>>) =>
             (pc = "upload" /\ pc' = "fsave")]_vars

\* the final report of a run in mode "all" that skipped one file by its hash,
\* uploaded one whose identity had a record and one whose identity had none
C24_Witness ==
    /\ RunEnd
    /\ mode = "all"
    /\ skipped = 1 /\ added = 1 /\ modified = 1
    /\ Len(okLog) = 2

\* the identities that have a record in a mapping
IdsOf(files) == {_get_file_identity(files[i][1]) : i \in 1..Len(files)}

\* C25: no step removes an identity from the store: an identity that has a record
\* in the state file has one after every step, and an identity that has a record
\* in self.state has one after every step of the same process.
C25_RecordsNeverDeleted ==
    [][/\ IdsOf(Persisted) \subseteq IdsOf(Persisted')
       /\ (pc # "off" /\ pc' # "off" /\ state.kind = "ok") =>
             IdsOf(state.files) \subseteq IdsOf(state'.files)]_vars

\* the key is either exactly one token, or holds no token at all
Canonical(k) == \/ Len(k) = 11 /\ TokenAt(k, 1)
                \/ \A i \in 1..Len(k) : ~TokenAt(k, i)

\* every key of the mapping is canonical and its own identity, and no two records
\* belong to one identity
CanonicalStore(files) ==
    /\ \A i \in 1..Len(files) :
          /\ Canonical(files[i][1])
          /\ _get_file_identity(files[i][1]) = files[i][1]
    /\ \A i, j \in 1..Len(files) :
          _get_file_identity(files[i][1]) = _get_file_identity(files[j][1]) => i = j

\* C27: from the migration step of a run to its end, self.state holds canonical
\* keys only and one record per identity, and so does the state file whenever a
\* save of the run has completed; a successful upload stores its record under the
\* identity of the file name, which is its own identity, and adds no other key.
C27_KeysAreCanonical ==
    /\ [](Running => CanonicalStore(state.files))
    /\ []((pc \in {"roots", "scan", "upload", "fsave"} /\ disk.kind = "ok") =>
             CanonicalStore(disk.files))
    /\ [](\A j \in 1..Len(okLog) :
             /\ okLog[j][1] = _get_file_identity(Tree[okLog[j][3]].name)
             /\ _get_file_identity(okLog[j][1]) = okLog[j][1]
             /\ Canonical(okLog[j][1]))
    /\ [][(pc = "upload" /\ pc' = "fsave") =>
             /\ Keys(state'.files) =
                    Keys(state.files) \cup {_get_file_identity(Tree[idx].name)}
             /\ Get(state'.files, _get_file_identity(Tree[idx].name)).filename =
                    Tree[idx].name]_vars

\* a store keyed by two raw file names of one identity was migrated to one record
\* under the token, and a file whose name holds no token has been recorded under
\* its name
C27_Witness ==
    /\ pc = "fsave"
    /\ Len(base) = 1 /\ base[1][1] = NCT1
    /\ base[1][2].filename = NCT1 \o Md
    /\ Len(state.files) = 2
    /\ state.files[2][1] = Tree[idx].name
    /\ \A i \in 1..Len(Tree[idx].name) : ~TokenAt(Tree[idx].name, i)

\* C28: in mode "today" the files of one run are filtered against one run date:
\* two files of the run whose names begin with the same ten characters are both
\* passed by the date rule or both skipped by it.
C28_OneRunDate ==
    \A p, q \in dateChecks :
        SubSeq(Tree[p[1]].name, 1, 10) = SubSeq(Tree[q[1]].name, 1, 10) => p[2] = q[2]

\* a record the first process persisted after a successful upload of this run is
\* absent from the state file, which holds a complete mapping
LostUpdate ==
    /\ pc \in {"roots", "scan", "upload"}
    /\ disk.kind = "ok"
    /\ \E j \in 1..Len(okLog) : okLog[j][1] \notin Keys(disk.files)

\* C26: each process saves by rewriting the whole state file with its own copy of
\* the mapping, so a record one process has persisted can be absent from the file
\* after a save of the other; this arises by no other step than the completion of
\* a save of the other process.  Within one run the record of a file is written
\* and persisted before the next file is taken: from the write of a record to the
\* end of its save the run's copy and its position stay as they are.
C26_ConcurrentRunsLoseUpdates ==
    /\ [][(pc \in {"mwrite", "fwrite"} /\ pc' \in {"roots", "scan"}) => disk' = state]_vars
    /\ [][(peer.pc \in {"mwrite", "fwrite"} /\ peer'.pc = "scan") => disk' = peer.state]_vars
    /\ [][(~LostUpdate /\ LostUpdate') =>
             /\ peer.pc \in {"mwrite", "fwrite"} /\ peer'.pc = "scan"
             /\ state' = state /\ pc' = pc]_vars
    /\ [][(pc \in {"fsave", "fwrite"} /\ Running') =>
             /\ state' = state
             /\ \/ pc' = pc /\ idx' = idx
                \/ pc = "fsave" /\ pc' = "fwrite" /\ idx' = idx
                \/ pc = "fwrite" /\ pc' = "scan" /\ idx' = idx + 1 /\ disk' = state]_vars
    /\ [](pc \in {"fsave", "fwrite"} =>
             /\ okLog # <<>>
             /\ okLog[Len(okLog)][3] = idx
             /\ \A j \in 1..(Len(okLog) - 1) : okLog[j][3] < idx)

\* the second process has completed a save while the first was between two files,
\* and the record the first had persisted for an earlier file is gone from the
\* state file
C26_Witness ==
    /\ LostUpdate
    /\ pc = "scan"
    /\ peer.pc = "scan"
    /\ disk = peer.state
    /\ \E j \in 1..Len(okLog) : Get(state.files, okLog[j][1]) = okLog[j][2]

\* run_step calls of this call of auto_pipeline that returned True
Succeeded == {j \in 1..Len(exits) : exits[j] = "ok"}

\* C29: the children auto_pipeline starts are, in this order, the download, the
\* translation and the upload script; a child is started only when every earlier
\* run_step call of the loop returned True; a run_step call that returns False is
\* the last one of the loop, no later child is started; and the count printed at
\* the end is the number of calls that returned True.
C29_PipelineStepsInOrder ==
    /\ [](started = SubSeq(steps, 1, Len(started)))
    /\ [](\A k \in 1..Len(started) :
             /\ Len(exits) >= k - 1
             /\ \A j \in 1..(k - 1) : exits[j] = "ok")
    /\ [](\A j \in 1..Len(exits) :
             exits[j] # "ok" => (j = Len(exits) /\ Len(started) <= j))
    /\ [](success_count = Cardinality(Succeeded))
    /\ [](report # None =>
             /\ ppc = "off"
             /\ report = <<Cardinality(Succeeded), Len(steps)>>)
    /\ [][(exits # <<>> /\ exits[Len(exits)] # "ok" /\ started' # started) =>
             (ppc = "off" /\ started' = <<>>)]_vars

\* the download succeeded, the translation child exited with an error, and 1/3 was
\* printed without the upload script having been started
C29_Witness ==
    /\ report = <<1, 3>>
    /\ started = <<"daily_ctgov_check_tgbot.py", "ctgov_full_sync_rag.py">>
    /\ exits = <<"ok", "CalledProcessError">>

\* C30: process_pending_sync generates documents for a record only when its
\* sync_status is "pending"; a record whose processing completes is rewritten as
\* "synced", and a synced record changes only when the downloader writes it
\* again; a record whose processing raised keeps sync_status "pending", and a
\* pending record is taken up by the invocation that reads it; the loop goes on
\* with the next record after an error.
C30_TranslationStatusMachine ==
    /\ [](\A r \in errs : recs[r] = "pending")
    /\ [][(tpc # "work" /\ tpc' = "work") => recs[tidx] = "pending"]_vars
    /\ [][(tpc = "dump" /\ tpc' \in {"load", "done"} /\ errs' = errs) =>
             recs'[tidx] = "synced"]_vars
    /\ [][\A r \in Recs :
             (recs[r] = "synced" /\ recs'[r] # "synced") =>
                 (ppc = "child" /\ step = 1 /\ recs'[r] = "pending")]_vars
    /\ [][(tpc = "load" /\ recs[tidx] = "pending" /\ tpc' \notin {"load", "off"}) =>
             (tpc' = "work" /\ tidx' = tidx)]_vars
    /\ [][(errs' # errs /\ errs' # {}) =>
             /\ errs' = errs \cup {tidx}
             /\ tidx' = tidx + 1
             /\ tpc' = IF tidx' \in Recs THEN "load" ELSE "done"]_vars

====
